---------------------------- MODULE Spec2Model ----------------------------
(***************************************************************************)
(* Model of the manifest mutation pipeline of IASIP_gifs:                  *)
(*   src/add_gif_cli.py          ingest of one GIF (download, metadata,   *)
(*                               schema validation, manifest update, git) *)
(*   src/generate_placeholders.py  reconciliation: a placeholder for      *)
(*                               every manifest entry without a file      *)
(* Strings are sequences of one-character strings, so that lower-casing,   *)
(* suffix tests and the lexicographic order of Python's str are computed.  *)
(***************************************************************************)
EXTENDS Integers, Sequences, FiniteSets, TLC

VARIABLES
    manifestFile,   \* content of gifs/index.json (MANIFEST_PATH)
    gifs,           \* content of every path GIFS_DIR / name
    cwd,            \* names of the files that exist at Path(name), in the working directory
    ingest,         \* per process: position and locals of main() of add_gif_cli.py
    hist,           \* per process: history of the current run (pre-run snapshots, flags)
    init0,          \* history: the manifest file before the first run
    recon           \* position, locals and history of main() of generate_placeholders.py

vars == <<manifestFile, gifs, cwd, ingest, hist, init0, recon>>

-----------------------------------------------------------------------------
(* Bounds *)

MaxRecords == 2     \* entries of the manifest file before the first run

-----------------------------------------------------------------------------
(* Strings *)

GifExt == <<".", "g", "i", "f">>

\* ord(c) of the characters the model uses
Ord(c) ==
    CASE c = " " -> 32 [] c = "." -> 46
      [] c = "A" -> 65 [] c = "B" -> 66 [] c = "F" -> 70 [] c = "G" -> 71 [] c = "I" -> 73
      [] c = "_" -> 95
      [] c = "a" -> 97 [] c = "b" -> 98 [] c = "f" -> 102 [] c = "g" -> 103
      [] c = "i" -> 105 [] c = "t" -> 116 [] c = "x" -> 120

\* str.lower(), one character
LowerChar(c) ==
    CASE c = "A" -> "a" [] c = "B" -> "b" [] c = "F" -> "f" [] c = "G" -> "g"
      [] c = "I" -> "i" [] c = "X" -> "x" [] OTHER -> c

\* str.lower()
Lower(s) == [i \in 1..Len(s) |-> LowerChar(s[i])]

\* str.replace(' ', '_')
ReplaceSpaces(s) == [i \in 1..Len(s) |-> IF s[i] = " " THEN "_" ELSE s[i]]

\* str.endswith(suffix)
EndsWith(s, suffix) ==
    /\ Len(s) >= Len(suffix)
    /\ SubSeq(s, Len(s) - Len(suffix) + 1, Len(s)) = suffix

\* s < t for Python str: lexicographic by code point
RECURSIVE StrLess(_, _)
StrLess(s, t) ==
    IF t = <<>> THEN FALSE
    ELSE IF s = <<>> THEN TRUE
    ELSE IF Ord(Head(s)) # Ord(Head(t)) THEN Ord(Head(s)) < Ord(Head(t))
    ELSE StrLess(Tail(s), Tail(t))

StrLessEq(s, t) == ~StrLess(t, s)

\* str.strip(), for the blank character
RECURSIVE Strip(_)
Strip(s) ==
    IF s = <<>> THEN s
    ELSE IF Head(s) = " " THEN Strip(Tail(s))
    ELSE IF s[Len(s)] = " " THEN Strip(SubSeq(s, 1, Len(s) - 1))
    ELSE s

\* str.split(',')
RECURSIVE SplitComma(_)
SplitComma(s) ==
    IF \A i \in 1..Len(s) : s[i] # ","
    THEN <<s>>
    ELSE LET i == CHOOSE k \in 1..Len(s) : s[k] = "," /\ \A j \in 1..(k - 1) : s[j] # ","
         IN  <<SubSeq(s, 1, i - 1)>> \o SplitComma(SubSeq(s, i + 1, Len(s)))

\* [x for x in seq if keep(x)] with keep(x) = (x is a non-empty string)
RECURSIVE NonEmptyOnly(_)
NonEmptyOnly(ss) ==
    IF ss = <<>> THEN <<>>
    ELSE IF Head(ss) = <<>> THEN NonEmptyOnly(Tail(ss))
    ELSE <<Head(ss)>> \o NonEmptyOnly(Tail(ss))

-----------------------------------------------------------------------------
(* Configuration, add_gif_cli.py lines 22-25 *)

MAX_FILE_SIZE_MB == 5

MaxBytes == MAX_FILE_SIZE_MB * 1024 * 1024

-----------------------------------------------------------------------------
(* JSON values and files *)

JStr(s) == [t |-> "str", v |-> s]
JNum == [t |-> "num", v |-> <<>>]           \* a number where a string is expected
JMissing == [t |-> "missing", v |-> <<>>]   \* the key is not in the object

\* a JSON object of the manifest array
Rec(fn, d, tg) == [kind |-> "object", filename |-> fn, description |-> d, tags |-> tg]
\* an array element that is not an object (a number, a string, null)
NonObject == [kind |-> "scalar", filename |-> JMissing, description |-> 0, tags |-> <<>>]

\* contents of a JSON file
Absent == [kind |-> "absent", val |-> <<>>]          \* the path does not exist
Truncated == [kind |-> "truncated", val |-> <<>>]    \* zero bytes: json.load raises JSONDecodeError
Garbage == [kind |-> "garbage", val |-> <<>>]        \* text that is not JSON
JObject == [kind |-> "dict", val |-> <<>>]           \* valid JSON whose top level is an object
JList(es) == [kind |-> "list", val |-> es]           \* valid JSON whose top level is an array

\* contents of a path of the asset directory
NoFile == [kind |-> "absent", size |-> 0]
OrigFile == [kind |-> "orig", size |-> 100]          \* an asset that was there before the run
Fetched(n) == [kind |-> "fetched", size |-> n]       \* the whole body of a response
Partial == [kind |-> "partial", size |-> 0]          \* opened 'wb', body not completely written
MinimalGif == [kind |-> "placeholder", size |-> 43]  \* MINIMAL_GIF of generate_placeholders.py
EmptyFile == [kind |-> "empty", size |-> 0]          \* the result of Path.touch

-----------------------------------------------------------------------------
(* The names the model draws from *)

a_gif == <<"a">> \o GifExt
b__gif == <<"b", "_">> \o GifExt
B__gif == <<"B", "_">> \o GifExt

\* the filename argument of the command line
ArgNames ==
    { a_gif,
      <<"B", " ", ".", "G", "I", "F">>,
      <<"b", ".", "t", "x", "t">> }

\* the names of the paths of the asset directory
FileNames == {a_gif, b__gif, B__gif}

\* the assets that may exist before the first run
InitAssetNames == {a_gif, b__gif}

\* the entries the manifest file may hold before the first run
InitEntries ==
    { Rec(JStr(a_gif), 10, <<<<"x">>>>),
      Rec(JStr(B__gif), 200, <<<<"x">>>>),
      Rec(JNum, 10, <<<<"x">>>>),
      Rec(JMissing, 10, <<<<"x">>>>),
      NonObject }

SeqsUpTo(S, n) == UNION { [1..k -> S] : k \in 0..n }

InitManifestFiles ==
    {Absent, Garbage, JObject} \cup { JList(es) : es \in SeqsUpTo(InitEntries, MaxRecords) }

\* the description typed at the prompt, by its length after strip()
DescInputs == {9, 10, 200, 201}

\* the line typed at the tags prompt
TagInputs ==
    { <<" ", ",", " ">>,
      <<" ", "X", ",", ",", " ", "b">> }

\* gif-schema.json as validate_entry finds it. The file is not part of the sources:
\* "spec" is the record shape of the specification (description of 10..200
\* characters, at least one tag), "strict" a schema version that allows a
\* description of at most 100 characters.
SchemaFiles == {"absent", "garbage", "noitems", "spec", "strict"}

\* the HTTP exchange of requests.get(url, stream=True)
Responses ==
    [ transport : {"ok", "error"},          \* requests.get raises RequestException
      status : {200, 404},
      ctype : {"image/gif", "text/html", "none"},
      clen : {-1, 100, MaxBytes, MaxBytes + 1},   \* Content-Length, -1: no header
      body : {100, MaxBytes + 1},                 \* bytes the server sends
      stream : {"ok", "error"} ]            \* iter_content raises RequestException

Procs == {1, 2}

\* the processes that run under the sequential discipline of the operator
SeqProcs == {1}

-----------------------------------------------------------------------------
(* Pure functions of add_gif_cli.py *)

\* main, line 153: args.filename.lower().replace(' ', '_')
Normalize(name) == ReplaceSpaces(Lower(name))

\* get_metadata, line 79
DescOk(d) == d >= 10 /\ d <= 200

\* get_metadata, lines 85-86
ParseTags(line) ==
    LET parts == SplitComma(Lower(Strip(line)))
    IN  NonEmptyOnly([i \in 1..Len(parts) |-> Strip(parts[i])])

\* jsonschema.validate of [entry] against the items of the schema file
SchemaAccepts(schema, entry) ==
    /\ entry.filename.t = "str"
    /\ entry.description >= 10
    /\ entry.description <= (IF schema = "strict" THEN 100 ELSE 200)
    /\ Len(entry.tags) >= 1

\* update_manifest, line 114: any(g['filename'] == entry['filename'] for g in manifest),
\* evaluated left to right: "dup" at the first match, "crash" at an element that
\* cannot be subscripted with 'filename' before any match, "ok" otherwise
RECURSIVE DupScan(_, _)
DupScan(es, fn) ==
    IF es = <<>> THEN "ok"
    ELSE IF Head(es).kind # "object" \/ Head(es).filename.t = "missing" THEN "crash"
    ELSE IF Head(es).filename = fn THEN "dup"
    ELSE DupScan(Tail(es), fn)

\* faulty variant of SortKey: the sort key without lower()
SortKeyRaw(e) == e.filename.v

\* update_manifest, line 120: the sort key, x['filename'].lower()
SortKey(e) == Lower(e.filename.v)

\* list.sort is stable: e goes after every element whose key is not greater
RECURSIVE InsertByKey(_, _)
InsertByKey(sorted, e) ==
    IF sorted = <<>> THEN <<e>>
    ELSE IF StrLess(SortKey(e), SortKey(Head(sorted))) THEN <<e>> \o sorted
    ELSE <<Head(sorted)>> \o InsertByKey(Tail(sorted), e)

RECURSIVE SortManifest(_)
SortManifest(es) ==
    IF es = <<>> THEN <<>>
    ELSE InsertByKey(SortManifest(SubSeq(es, 1, Len(es) - 1)), es[Len(es)])

\* faulty variant of AppendEntry: the entry overwrites the last record instead of extending the list
AppendEntryOverwrite(es, entry) ==
    IF es = <<>> THEN <<entry>> ELSE [es EXCEPT ![Len(es)] = entry]

\* update_manifest, line 119
AppendEntry(es, entry) == Append(es, entry)

-----------------------------------------------------------------------------
(* State *)

NoEntry == Rec(JMissing, 0, <<>>)

\* a process that is not running main()
IdleProc ==
    [ pc |-> "Idle",
      local_filename |-> <<>>,   \* main: local_filename
      new_entry |-> NoEntry,     \* main: new_entry
      manifest |-> Absent,       \* update_manifest: manifest
      err |-> "none" ]           \* why the process ended

NoHist ==
    [ arg |-> <<>>,              \* args.filename of the run
      man0 |-> Absent,           \* the manifest file when the run started
      gifs0 |-> [n \in FileNames |-> NoFile],   \* the asset directory when the run started
      cwd0 |-> {},               \* the working directory when the run started
      loaded |-> Absent,         \* what load_json returned to update_manifest
      fetchTried |-> FALSE,      \* download_gif was called
      created |-> FALSE ]        \* download_gif opened the asset path for writing

\* generate_placeholders.py is not running
IdleRecon ==
    [ pc |-> "Idle",
      write_minimal |-> TRUE,    \* PlaceholderGenerator.write_minimal
      manifest_data |-> <<>>,    \* main: manifest_data
      i |-> 0,                   \* generate: position of the loop in manifest_entries
      created_count |-> 0,       \* generate: created_count
      err |-> "none",            \* why the pass ended
      created |-> {},            \* history: positions of the entries a file was created for
      skipped |-> {},            \* history: positions of the entries whose path existed
      malformed |-> {},          \* history: positions of the entries skipped with a warning
      gifs0 |-> [n \in FileNames |-> NoFile],   \* history: the asset directory at the start
      after |-> FALSE,           \* history: a pass ended before this one, nothing changed since
      endMan |-> Absent,         \* history: the manifest file when the pass ended
      endGifs |-> [n \in FileNames |-> NoFile] ] \* history: the asset directory at that time

\* positions at which a pass has ended
ReconEnded == {"Done", "Failed", "Crashed"}

\* positions at which a run has ended
Ended == {"Done", "Failed", "Crashed", "Killed"}

Init ==
    /\ manifestFile \in InitManifestFiles
    /\ gifs \in { [n \in FileNames |-> IF n \in S THEN OrigFile ELSE NoFile] :
                    S \in SUBSET InitAssetNames }
    /\ cwd \in SUBSET {a_gif}
    /\ ingest = [p \in Procs |-> IdleProc]
    /\ hist = [p \in Procs |-> NoHist]
    /\ init0 = manifestFile
    /\ recon = IdleRecon

\* sys.exit(1) after a printed message
Exit(p, why) == [ingest EXCEPT ![p].pc = "Failed", ![p].err = why]

\* an exception nothing catches
Raise(p, why) == [ingest EXCEPT ![p].pc = "Crashed", ![p].err = why]

\* Path(entry['filename']).exists() and os.remove(Path(entry['filename'])),
\* lines 107 and 116: the path is relative to the working directory
RemoveDownloaded(files, fn) == files \ {fn}

-----------------------------------------------------------------------------
(* main of add_gif_cli.py, one action per call it makes *)

\* faulty variant of GifPathExists: the path is taken relative to the working directory,
\* as the clean-up of lines 107 and 116 takes it
GifPathExistsInCwd(name) == name \in cwd

\* main, line 161
GifPathExists(name) == gifs[name].kind # "absent"

\* main, lines 150-163: normalize and validate the filename
Start(p, arg) ==
    /\ ingest[p].pc \in Ended \cup {"Idle"}
    /\ hist' = [hist EXCEPT ![p] =
                  [NoHist EXCEPT !.arg = arg, !.man0 = manifestFile,
                                 !.gifs0 = gifs, !.cwd0 = cwd]]
    /\ LET local == Normalize(arg)
           fresh == [IdleProc EXCEPT !.local_filename = local]
       IN  ingest' = [ingest EXCEPT ![p] =
                IF ~EndsWith(local, GifExt)
                THEN [fresh EXCEPT !.pc = "Failed", !.err = "BadFilename"]
                ELSE IF GifPathExists(local)
                THEN [fresh EXCEPT !.pc = "Failed", !.err = "AlreadyExists"]
                ELSE [fresh EXCEPT !.pc = "Download"]]
    /\ UNCHANGED <<manifestFile, gifs, cwd, init0, recon>>

\* download_gif, lines 51-60: the checks before the file is opened
FetchRefusal(r) ==
    IF r.transport = "error" THEN "RequestException"
    ELSE IF r.status # 200 THEN "HTTPError"
    ELSE IF r.ctype # "image/gif" THEN "NotAGif"
    ELSE IF (IF r.clen = -1 THEN 0 ELSE r.clen) > MaxBytes THEN "TooLarge"
    ELSE "none"

\* download_gif, lines 47-70
Download(p, r) ==
    /\ ingest[p].pc = "Download"
    /\ LET name == ingest[p].local_filename
       IN  IF FetchRefusal(r) # "none"
           THEN /\ ingest' = Exit(p, FetchRefusal(r))
                /\ hist' = [hist EXCEPT ![p].fetchTried = TRUE]
                /\ UNCHANGED gifs
           ELSE IF r.stream = "error"
           THEN /\ ingest' = Exit(p, "StreamError")
                /\ hist' = [hist EXCEPT ![p].fetchTried = TRUE, ![p].created = TRUE]
                /\ gifs' = [gifs EXCEPT ![name] = Partial]
           ELSE /\ ingest' = [ingest EXCEPT ![p].pc = "GetMetadata"]
                /\ hist' = [hist EXCEPT ![p].fetchTried = TRUE, ![p].created = TRUE]
                /\ gifs' = [gifs EXCEPT ![name] = Fetched(r.body)]
    /\ UNCHANGED <<manifestFile, cwd, init0, recon>>

\* get_metadata, lines 72-95: an input the loops refuse is asked for again
GetMetadata(p, d, line) ==
    /\ ingest[p].pc = "GetMetadata"
    /\ IF DescOk(d) /\ ParseTags(line) # <<>>
       THEN ingest' = [ingest EXCEPT
                ![p].new_entry = Rec(JStr(ingest[p].local_filename), d, ParseTags(line)),
                ![p].pc = "ValidateEntry"]
       ELSE UNCHANGED ingest
    /\ UNCHANGED <<manifestFile, gifs, cwd, hist, init0, recon>>

\* get_metadata, lines 78 and 85: input() raises EOFError or KeyboardInterrupt
MetadataInterrupted(p) ==
    /\ ingest[p].pc = "GetMetadata"
    /\ ingest' = Raise(p, "InputInterrupted")
    /\ UNCHANGED <<manifestFile, gifs, cwd, hist, init0, recon>>

\* validate_entry, lines 97-108
ValidateEntry(p, schema) ==
    /\ ingest[p].pc = "ValidateEntry"
    /\ IF schema = "absent"
       THEN ingest' = Exit(p, "SchemaNotFound") /\ UNCHANGED cwd
       ELSE IF schema = "garbage"
       THEN ingest' = Exit(p, "SchemaInvalidJSON") /\ UNCHANGED cwd
       ELSE IF schema = "noitems"
       THEN ingest' = Raise(p, "SchemaKeyError") /\ UNCHANGED cwd
       ELSE IF SchemaAccepts(schema, ingest[p].new_entry)
       THEN ingest' = [ingest EXCEPT ![p].pc = "LoadManifest"] /\ UNCHANGED cwd
       ELSE /\ ingest' = Exit(p, "SchemaViolation")
            /\ cwd' = RemoveDownloaded(cwd, ingest[p].local_filename)
    /\ UNCHANGED <<manifestFile, gifs, hist, init0, recon>>

\* faulty variant of LoadManifest: a manifest that is not valid JSON is replaced by an empty
\* one, like an absent manifest
LoadManifestResetsInvalid(p) ==
    /\ ingest[p].pc = "LoadManifest"
    /\ IF manifestFile.kind \in {"absent", "garbage", "truncated"}
       THEN /\ manifestFile' = JList(<<>>)
            /\ ingest' = [ingest EXCEPT ![p].manifest = JList(<<>>), ![p].pc = "CheckDuplicate"]
            /\ hist' = [hist EXCEPT ![p].loaded = JList(<<>>)]
       ELSE /\ ingest' = [ingest EXCEPT ![p].manifest = manifestFile, ![p].pc = "CheckDuplicate"]
            /\ hist' = [hist EXCEPT ![p].loaded = manifestFile]
            /\ UNCHANGED manifestFile
    /\ UNCHANGED <<gifs, cwd, init0, recon>>

\* load_json(MANIFEST_PATH), lines 30-45, as update_manifest calls it on line 112
LoadManifest(p) ==
    /\ ingest[p].pc = "LoadManifest"
    /\ IF manifestFile.kind = "absent"
       THEN /\ manifestFile' = JList(<<>>)
            /\ ingest' = [ingest EXCEPT ![p].manifest = JList(<<>>), ![p].pc = "CheckDuplicate"]
            /\ hist' = [hist EXCEPT ![p].loaded = JList(<<>>)]
       ELSE IF manifestFile.kind \in {"garbage", "truncated"}
       THEN /\ ingest' = Exit(p, "ManifestInvalidJSON")
            /\ UNCHANGED <<manifestFile, hist>>
       ELSE /\ ingest' = [ingest EXCEPT ![p].manifest = manifestFile, ![p].pc = "CheckDuplicate"]
            /\ hist' = [hist EXCEPT ![p].loaded = manifestFile]
            /\ UNCHANGED manifestFile
    /\ UNCHANGED <<gifs, cwd, init0, recon>>

\* faulty variant of IsDuplicate: only the first record is compared
IsDuplicateFirstOnly(es, entry) ==
    IF es = <<>> THEN "ok" ELSE DupScan(<<Head(es)>>, entry.filename)

\* update_manifest, line 114
IsDuplicate(es, entry) == DupScan(es, entry.filename)

\* update_manifest, lines 114-120: duplicate check, append, sort, all in memory
CheckAppendSort(p) ==
    /\ ingest[p].pc = "CheckDuplicate"
    /\ LET m == ingest[p].manifest
           entry == ingest[p].new_entry
           appended == AppendEntry(m.val, entry)
       IN  IF m.kind # "list"
           THEN \* iterating an object yields its keys, strings; an empty one has no append
                ingest' = Raise(p, "TypeError") /\ UNCHANGED cwd
           ELSE IF IsDuplicate(m.val, entry) = "crash"
           THEN ingest' = Raise(p, "KeyError") /\ UNCHANGED cwd
           ELSE IF IsDuplicate(m.val, entry) = "dup"
           THEN /\ ingest' = Exit(p, "DuplicateKey")
                /\ cwd' = RemoveDownloaded(cwd, entry.filename.v)
           ELSE IF \E i \in 1..Len(appended) : appended[i].filename.t # "str"
           THEN \* the sort key calls lower() on a value that is not a string
                ingest' = Raise(p, "AttributeError") /\ UNCHANGED cwd
           ELSE /\ ingest' = [ingest EXCEPT ![p].manifest = JList(SortManifest(appended)),
                                            ![p].pc = "OpenManifest"]
                /\ UNCHANGED cwd
    /\ UNCHANGED <<manifestFile, gifs, hist, init0, recon>>

\* update_manifest, line 122: open(manifest_path, 'w') truncates the file
OpenManifest(p) ==
    /\ ingest[p].pc = "OpenManifest"
    /\ manifestFile' = Truncated
    /\ ingest' = [ingest EXCEPT ![p].pc = "DumpManifest"]
    /\ UNCHANGED <<gifs, cwd, hist, init0, recon>>

\* update_manifest, lines 123-124: json.dump and the close of the with block
DumpManifest(p) ==
    /\ ingest[p].pc = "DumpManifest"
    /\ manifestFile' = ingest[p].manifest
    /\ ingest' = [ingest EXCEPT ![p].pc = "GitAddCommit"]
    /\ UNCHANGED <<gifs, cwd, hist, init0, recon>>

\* the process stops between the open of line 122 and the end of the write
\* (a signal, a full disk): nothing of the program runs after it
WriteInterrupted(p) ==
    /\ ingest[p].pc = "DumpManifest"
    /\ ingest' = [ingest EXCEPT ![p].pc = "Killed", ![p].err = "Stopped"]
    /\ UNCHANGED <<manifestFile, gifs, cwd, hist, init0, recon>>

\* faulty variant of GitAddCommit: a failed staging undoes the run
GitAddCommitRollsBack(p, ok) ==
    /\ ingest[p].pc = "GitAddCommit"
    /\ IF ok
       THEN ingest' = [ingest EXCEPT ![p].pc = "Done"] /\ UNCHANGED <<manifestFile, gifs>>
       ELSE /\ ingest' = Exit(p, "GitError")
            /\ manifestFile' = hist[p].loaded
            /\ gifs' = [gifs EXCEPT ![ingest[p].local_filename] = NoFile]
    /\ UNCHANGED <<cwd, hist, init0, recon>>

\* run_git_add_commit, lines 126-142
GitAddCommit(p, ok) ==
    /\ ingest[p].pc = "GitAddCommit"
    /\ ingest' = IF ok THEN [ingest EXCEPT ![p].pc = "Done"] ELSE Exit(p, "GitError")
    /\ UNCHANGED <<manifestFile, gifs, cwd, hist, init0, recon>>

-----------------------------------------------------------------------------
(* Specification: one operator, one run at a time *)

NoOtherRun(p) == \A q \in Procs \ {p} : ingest[q].pc \in Ended \cup {"Idle"}

Next ==
    \/ \E p \in SeqProcs, arg \in ArgNames : NoOtherRun(p) /\ Start(p, arg)
    \/ \E p \in SeqProcs, r \in Responses : Download(p, r)
    \/ \E p \in SeqProcs, d \in DescInputs, line \in TagInputs : GetMetadata(p, d, line)
    \/ \E p \in SeqProcs : MetadataInterrupted(p)
    \/ \E p \in SeqProcs, schema \in SchemaFiles : ValidateEntry(p, schema)
    \/ \E p \in SeqProcs : LoadManifest(p)
    \/ \E p \in SeqProcs : CheckAppendSort(p)
    \/ \E p \in SeqProcs : OpenManifest(p)
    \/ \E p \in SeqProcs : DumpManifest(p)
    \/ \E p \in SeqProcs : WriteInterrupted(p)
    \/ \E p \in SeqProcs, ok \in BOOLEAN : GitAddCommit(p, ok)

Spec == Init /\ [][Next]_vars

-----------------------------------------------------------------------------
(* main of generate_placeholders.py *)

b_txt == <<"b", ".", "t", "x", "t">>

\* the entries the manifest file may hold when a pass starts
ReconEntries == InitEntries \cup {Rec(JStr(b_txt), 10, <<<<"x">>>>)}

InitRecon ==
    /\ manifestFile \in {Absent, Garbage, JObject}
                          \cup { JList(es) : es \in SeqsUpTo(ReconEntries, MaxRecords) }
    /\ gifs \in { [n \in FileNames |-> IF n \in S THEN OrigFile ELSE NoFile] :
                    S \in SUBSET InitAssetNames }
    /\ cwd = {}
    /\ ingest = [p \in Procs |-> IdleProc]
    /\ hist = [p \in Procs |-> NoHist]
    /\ init0 = manifestFile
    /\ recon = IdleRecon

\* the pass ends: sys.exit after a message, or an exception nothing catches
ReconEnd(pc, why) ==
    [recon EXCEPT !.pc = pc, !.err = why, !.endMan = manifestFile, !.endGifs = gifs]

\* main, lines 115-138: the arguments; --index-path and --gif-dir keep their defaults
ReconStart(touch) ==
    /\ recon.pc \in ReconEnded \cup {"Idle"}
    /\ recon' = [IdleRecon EXCEPT
                    !.pc = "Load",
                    !.write_minimal = ~touch,
                    !.gifs0 = gifs,
                    !.after = /\ recon.pc \in ReconEnded
                              /\ manifestFile = recon.endMan
                              /\ gifs = recon.endGifs]
    /\ UNCHANGED <<manifestFile, gifs, cwd, ingest, hist, init0>>

\* faulty variant of ReconLoad: an absent manifest is created empty, as
\* load_json of add_gif_cli.py does
ReconLoadCreates ==
    /\ recon.pc = "Load"
    /\ recon' =
         IF manifestFile.kind \in {"garbage", "truncated"}
         THEN ReconEnd("Failed", "ManifestInvalidJSON")
         ELSE IF manifestFile.kind \notin {"absent", "list"}
         THEN ReconEnd("Failed", "ManifestNotAList")
         ELSE [recon EXCEPT !.pc = "Generate", !.manifest_data = manifestFile.val, !.i = 1]
    /\ manifestFile' = IF manifestFile.kind = "absent" THEN JList(<<>>) ELSE manifestFile
    /\ UNCHANGED <<gifs, cwd, ingest, hist, init0>>

\* _load_manifest, lines 24-45, and the constructor of PlaceholderGenerator, lines 52-65
ReconLoad ==
    /\ recon.pc = "Load"
    /\ recon' =
         IF manifestFile.kind = "absent" THEN ReconEnd("Failed", "ManifestNotFound")
         ELSE IF manifestFile.kind \in {"garbage", "truncated"}
         THEN ReconEnd("Failed", "ManifestInvalidJSON")
         ELSE IF manifestFile.kind # "list" THEN ReconEnd("Failed", "ManifestNotAList")
         ELSE [recon EXCEPT !.pc = "Generate", !.manifest_data = manifestFile.val, !.i = 1]
    /\ UNCHANGED <<manifestFile, gifs, cwd, ingest, hist, init0>>

\* generate, lines 91-95: "crash" when entry.get or filename.endswith does not
\* exist (the entry is not an object, the filename is a number other than 0),
\* "malformed" when the entry is skipped with a warning, "ok" otherwise
EntryShape(e) ==
    IF e.kind # "object" THEN "crash"
    ELSE IF e.filename.t = "missing" THEN "malformed"
    ELSE IF e.filename.t # "str" THEN "crash"
    ELSE IF e.filename.v = <<>> \/ ~EndsWith(e.filename.v, GifExt) THEN "malformed"
    ELSE "ok"

\* faulty variant of PlaceholderPathExists: the path is taken relative to the
\* working directory instead of gif_dir
PlaceholderPathExistsInCwd(name) == name \in cwd

\* faulty variant of PlaceholderPathExists: no test, every listed file is written
PlaceholderPathExistsNever(name) == FALSE

\* generate, line 99: (self.gif_dir / filename).exists()
PlaceholderPathExists(name) == gifs[name].kind # "absent"

\* _write_placeholder, lines 67-78, on a filesystem that accepts the write
WritePlaceholder(files, name, write_minimal) ==
    IF write_minimal
    THEN [files EXCEPT ![name] = MinimalGif]
    ELSE [files EXCEPT ![name] = IF files[name].kind = "absent" THEN EmptyFile ELSE files[name]]

\* generate, lines 90-109: one iteration of the loop
ReconEntry ==
    /\ recon.pc = "Generate"
    /\ recon.i <= Len(recon.manifest_data)
    /\ LET e == recon.manifest_data[recon.i]
           next == [recon EXCEPT !.i = recon.i + 1]
       IN  IF EntryShape(e) = "crash"
           THEN recon' = ReconEnd("Crashed", "AttributeError") /\ UNCHANGED gifs
           ELSE IF EntryShape(e) = "malformed"
           THEN /\ recon' = [next EXCEPT !.malformed = recon.malformed \cup {recon.i}]
                /\ UNCHANGED gifs
           ELSE IF PlaceholderPathExists(e.filename.v)
           THEN /\ recon' = [next EXCEPT !.skipped = recon.skipped \cup {recon.i}]
                /\ UNCHANGED gifs
           ELSE /\ gifs' = WritePlaceholder(gifs, e.filename.v, recon.write_minimal)
                /\ recon' = [next EXCEPT !.created = recon.created \cup {recon.i},
                                         !.created_count = recon.created_count + 1]
    /\ UNCHANGED <<manifestFile, cwd, ingest, hist, init0>>

\* generate, lines 111-112, and main, line 152
ReconFinish ==
    /\ recon.pc = "Generate"
    /\ recon.i > Len(recon.manifest_data)
    /\ recon' = ReconEnd("Done", "none")
    /\ UNCHANGED <<manifestFile, gifs, cwd, ingest, hist, init0>>

\* reconciliation passes only, one after the other
NextRecon ==
    \/ \E touch \in BOOLEAN : ReconStart(touch)
    \/ ReconLoad
    \/ ReconEntry
    \/ ReconFinish

SpecRecon == InitRecon /\ [][NextRecon]_vars

-----------------------------------------------------------------------------
(* Specification: one operator who runs either tool, one run at a time *)

InitTools ==
    /\ manifestFile \in {Absent, Garbage, JList(<<>>)}
    /\ gifs = [n \in FileNames |-> NoFile]
    /\ cwd = {}
    /\ ingest = [p \in Procs |-> IdleProc]
    /\ hist = [p \in Procs |-> NoHist]
    /\ init0 = manifestFile
    /\ recon = IdleRecon

NoPass == recon.pc \in ReconEnded \cup {"Idle"}

NoRun == \A p \in Procs : ingest[p].pc \in Ended \cup {"Idle"}

NextTools ==
    \/ \E p \in SeqProcs, arg \in ArgNames : NoOtherRun(p) /\ NoPass /\ Start(p, arg)
    \/ \E p \in SeqProcs, r \in Responses : Download(p, r)
    \/ \E p \in SeqProcs, d \in DescInputs, line \in TagInputs : GetMetadata(p, d, line)
    \/ \E p \in SeqProcs : MetadataInterrupted(p)
    \/ \E p \in SeqProcs, schema \in SchemaFiles : ValidateEntry(p, schema)
    \/ \E p \in SeqProcs : LoadManifest(p)
    \/ \E p \in SeqProcs : CheckAppendSort(p)
    \/ \E p \in SeqProcs : OpenManifest(p)
    \/ \E p \in SeqProcs : DumpManifest(p)
    \/ \E p \in SeqProcs : WriteInterrupted(p)
    \/ \E p \in SeqProcs, ok \in BOOLEAN : GitAddCommit(p, ok)
    \/ \E touch \in BOOLEAN : NoRun /\ ReconStart(touch)
    \/ ReconLoad
    \/ ReconEntry
    \/ ReconFinish

SpecTools == InitTools /\ [][NextTools]_vars

-----------------------------------------------------------------------------
(* Specification: two operators run the ingest tool at the same time; the steps
   of the two processes interleave at the file operations of the tool *)

InitConc ==
    /\ manifestFile \in {Absent, JList(<<>>), JList(<<Rec(JStr(B__gif), 200, <<<<"x">>>>)>>)}
    /\ gifs = [n \in FileNames |-> NoFile]
    /\ cwd = {}
    /\ ingest = [p \in Procs |-> IdleProc]
    /\ hist = [p \in Procs |-> NoHist]
    /\ init0 = manifestFile
    /\ recon = IdleRecon

\* the filename each operator asks for: two different assets
ConcArg(p) == IF p = 1 THEN a_gif ELSE <<"B", " ", ".", "G", "I", "F">>

\* the exchanges of a server that answers with a GIF of 100 bytes
ConcResponses ==
    { r \in Responses : /\ r.transport = "ok" /\ r.status = 200 /\ r.ctype = "image/gif"
                        /\ r.clen = 100 /\ r.body = 100 }

\* a description of accepted length
ConcDescInputs == {10}

\* the schema file of the repository
ConcSchemaFiles == {"spec"}

NextConc ==
    \/ \E p \in Procs : Start(p, ConcArg(p))
    \/ \E p \in Procs, r \in ConcResponses : Download(p, r)
    \/ \E p \in Procs, d \in ConcDescInputs, line \in TagInputs : GetMetadata(p, d, line)
    \/ \E p \in Procs : MetadataInterrupted(p)
    \/ \E p \in Procs, schema \in ConcSchemaFiles : ValidateEntry(p, schema)
    \/ \E p \in Procs : LoadManifest(p)
    \/ \E p \in Procs : CheckAppendSort(p)
    \/ \E p \in Procs : OpenManifest(p)
    \/ \E p \in Procs : DumpManifest(p)
    \/ \E p \in Procs : WriteInterrupted(p)
    \/ \E p \in Procs, ok \in BOOLEAN : GitAddCommit(p, ok)

SpecConc == InitConc /\ [][NextConc]_vars

-----------------------------------------------------------------------------
(* Vocabulary of the claims *)

\* the run of p has persisted the manifest (state Committed of the pipeline)
Committed(p) ==
    \/ ingest[p].pc \in {"GitAddCommit", "Done"}
    \/ ingest[p].pc = "Failed" /\ ingest[p].err = "GitError"

\* the run of p ended with a reported error or an exception, before Committed
FailedBeforeCommit(p) ==
    /\ ingest[p].pc \in {"Failed", "Crashed"}
    /\ ingest[p].err # "GitError"

\* the errors of download_gif
FetchErrors == {"RequestException", "HTTPError", "NotAGif", "TooLarge", "StreamError"}

\* the errors of a run after download_gif has returned
PostFetchErrors ==
    {"InputInterrupted", "SchemaNotFound", "SchemaInvalidJSON", "SchemaKeyError",
     "SchemaViolation", "ManifestInvalidJSON", "TypeError", "KeyError",
     "AttributeError", "DuplicateKey"}

\* the records of a manifest file; a file that does not exist holds none
Records(f) == IF f.kind = "list" THEN f.val ELSE <<>>

\* the errors of update_manifest before it opens the manifest file for writing
UpdateManifestErrors ==
    {"ManifestInvalidJSON", "TypeError", "KeyError", "AttributeError", "DuplicateKey"}

\* a manifest of records, each with a string filename; an absent file is the empty one
WellFormed(f) ==
    /\ f.kind \in {"absent", "list"}
    /\ \A i \in 1..Len(Records(f)) :
           Records(f)[i].kind = "object" /\ Records(f)[i].filename.t = "str"

Count(es, e) == Cardinality({i \in 1..Len(es) : es[i] = e})

\* the same records, each as often, in any order
SameRecords(es, fs) ==
    /\ Len(es) = Len(fs)
    /\ \A i \in 1..Len(es) : Count(es, es[i]) = Count(fs, es[i])

\* pairwise distinct filenames
Unique(es) == \A i, j \in 1..Len(es) : i # j => es[i].filename # es[j].filename

\* sorted in non-decreasing order of lower-cased filename
SortedByLower(es) ==
    \A i \in 1..(Len(es) - 1) :
        StrLessEq(Lower(es[i].filename.v), Lower(es[i + 1].filename.v))

-----------------------------------------------------------------------------
(* Claims *)

\* C1: when schema validation rejects the candidate record after the fetch has
\* written gifs/<filename>, at the end of the run that file does not exist and
\* the manifest file is what it was before the run.
C1_SchemaRejectionRollsBack ==
    \A p \in Procs :
        (ingest[p].pc = "Failed" /\ ingest[p].err = "SchemaViolation" /\ hist[p].created)
        => /\ gifs[ingest[p].local_filename] = NoFile
           /\ manifestFile = hist[p].man0

\* C2: a run that ends with the duplicate-key error leaves the manifest file
\* unchanged and has removed the asset it fetched.
C2_DuplicateKeyRollsBack ==
    \A p \in Procs :
        (ingest[p].pc = "Failed" /\ ingest[p].err = "DuplicateKey")
        => /\ manifestFile = hist[p].man0
           /\ gifs[ingest[p].local_filename] = NoFile

\* C3: a run that fails after the fetch created the asset and before Committed
\* (schema file missing or unreadable, manifest unreadable or malformed, schema
\* rejection, duplicate key, interrupted metadata collection) leaves no asset
\* file; a run that fails before the asset was created leaves the asset
\* directory unchanged.
C3_FailureRollsBack ==
    \A p \in Procs :
        /\ (ingest[p].pc \in {"Failed", "Crashed"} /\ ingest[p].err \in PostFetchErrors)
           => gifs[ingest[p].local_filename] = NoFile
        /\ (FailedBeforeCommit(p) /\ ~hist[p].created) => gifs = hist[p].gifs0

\* C4: once a run is Committed, the manifest file holds exactly the records it
\* held before the run, each unchanged, plus the candidate record of the run,
\* whose filename no earlier record had, and the asset file exists; and when
\* the manifest before the run is well formed and has no record for the
\* filename, update_manifest does not end the run with an error.
C4_SuccessfulIngest ==
    \A p \in Procs :
        /\ (ingest[p].pc \in {"Failed", "Crashed"}
              /\ ingest[p].err \in UpdateManifestErrors
              /\ WellFormed(hist[p].man0))
           => (\E i \in 1..Len(Records(hist[p].man0)) :
                  Records(hist[p].man0)[i].filename = JStr(ingest[p].local_filename))
        /\ Committed(p)
           => (/\ manifestFile.kind = "list"
               /\ ingest[p].new_entry.filename = JStr(ingest[p].local_filename)
               /\ SameRecords(manifestFile.val,
                              Append(Records(hist[p].man0), ingest[p].new_entry))
               /\ \A i \in 1..Len(Records(hist[p].man0)) :
                      Records(hist[p].man0)[i].filename # ingest[p].new_entry.filename
               /\ gifs[ingest[p].local_filename].kind = "fetched")

C4_Witness ==
    \E p \in Procs :
        /\ ingest[p].pc = "Done"
        /\ Len(Records(hist[p].man0)) = MaxRecords
        /\ Len(manifestFile.val) = MaxRecords + 1

C6_SortedAfterIngest ==
    \A p \in Procs :
        Committed(p) => manifestFile.kind = "list" /\ SortedByLower(manifestFile.val)

C6_Witness ==
    \E p \in Procs :
        /\ Committed(p)
        /\ Len(Records(hist[p].man0)) >= 2
        /\ ~SortedByLower(Records(hist[p].man0))

\* C7: when the manifest before the first run has pairwise distinct filenames,
\* the manifest file has pairwise distinct filenames after any sequence of runs.
C7_FilenamesStayUnique ==
    Unique(Records(init0)) => Unique(Records(manifestFile))

C7_Witness ==
    /\ Unique(Records(init0))
    /\ Len(Records(init0)) >= 1
    /\ Len(Records(manifestFile)) = Len(Records(init0)) + 2

\* C8: from the open of the manifest file for writing on, also when the process
\* stops during the write, the manifest file is either the complete manifest
\* that was loaded or the complete new manifest.
C8_AtomicPersist ==
    \A p \in Procs :
        (Committed(p) \/ ingest[p].pc \in {"DumpManifest", "Killed"})
        => manifestFile \in {hist[p].loaded, ingest[p].manifest}

\* C9: a run whose normalized filename (lower-cased, spaces replaced by
\* underscores) does not end in .gif, or for which gifs/<filename> existed when
\* the run started, has failed without a fetch and has left the asset directory
\* and the manifest file unchanged.
C9_BadFilenameFailsFast ==
    \A p \in Procs :
        LET name == ReplaceSpaces(Lower(hist[p].arg))
            bad == IF EndsWith(name, GifExt)
                   THEN hist[p].gifs0[name].kind # "absent"
                   ELSE TRUE
        IN  (ingest[p].pc # "Idle" /\ bad)
            => /\ ingest[p].pc = "Failed"
               /\ ingest[p].err \in {"BadFilename", "AlreadyExists"}
               /\ ~hist[p].fetchTried
               /\ gifs = hist[p].gifs0
               /\ manifestFile = hist[p].man0

C9_Witness ==
    \E p \in Procs :
        /\ ingest[p].pc = "Failed"
        /\ ingest[p].err = "AlreadyExists"
        /\ hist[p].arg # ingest[p].local_filename
        /\ hist[p].gifs0[ingest[p].local_filename] = OrigFile

\* C10: after a fetch that failed, for whatever reason, no file exists at the
\* destination path.
C10_FailedFetchLeavesNoFile ==
    \A p \in Procs :
        (ingest[p].pc = "Failed" /\ ingest[p].err \in FetchErrors)
        => gifs[ingest[p].local_filename] = NoFile

\* C11: a fetch that succeeds has written at most the ceiling of 5 MB, with or
\* without a declared content length, and a response whose declared content
\* length exceeds the ceiling is refused before anything is written.
C11_SizeCeiling ==
    \A p \in Procs :
        /\ (hist[p].created /\ gifs[ingest[p].local_filename].kind = "fetched")
           => gifs[ingest[p].local_filename].size <= MaxBytes
        /\ (ingest[p].pc = "Failed" /\ ingest[p].err = "TooLarge")
           => gifs[ingest[p].local_filename] = NoFile

-----------------------------------------------------------------------------
(* Claims about reconciliation, under SpecRecon *)

\* a record whose filename is a string that ends in .gif
WellFormedEntry(e) ==
    e.kind = "object" /\ e.filename.t = "str" /\ EndsWith(e.filename.v, GifExt)

\* the positions of the well-formed records of the manifest the pass loaded
WellFormedAt == {i \in 1..Len(recon.manifest_data) : WellFormedEntry(recon.manifest_data[i])}

\* the pass loaded the manifest and has ended
PassOver == recon.pc \in {"Done", "Crashed"}

C13_Classification ==
    PassOver
    => /\ recon.created \cup recon.skipped = WellFormedAt
       /\ recon.created \cap recon.skipped = {}
       /\ \A i \in recon.created : recon.gifs0[recon.manifest_data[i].filename.v] = NoFile
       /\ recon.created_count =
            Cardinality({recon.manifest_data[i].filename.v : i \in
                {j \in WellFormedAt : recon.gifs0[recon.manifest_data[j].filename.v] = NoFile}})
       /\ Cardinality(recon.skipped) = Cardinality(WellFormedAt) - recon.created_count
       /\ \A i \in WellFormedAt : gifs[recon.manifest_data[i].filename.v] # NoFile

\* C14: an entry without a filename, with a filename that is not a string ending
\* in .gif, or that is not a record, is reported as malformed and does not abort
\* the pass: the pass ends normally with every well-formed record created or
\* skipped.
C14_MalformedTolerated ==
    PassOver
    => /\ recon.pc = "Done"
       /\ recon.malformed = (1..Len(recon.manifest_data)) \ WellFormedAt
       /\ WellFormedAt \subseteq recon.created \cup recon.skipped

\* C15: a pass never changes the manifest file and never changes a path of the
\* asset directory that exists; it only creates files at paths that did not exist.
C15_ReconcileFrame ==
    [][/\ manifestFile' = manifestFile
       /\ \A n \in FileNames : gifs[n] # NoFile => gifs'[n] = gifs[n]]_vars

C15_Witness ==
    /\ recon.pc = "Done"
    /\ recon.created # {}
    /\ \E i \in recon.skipped : gifs[recon.manifest_data[i].filename.v] = OrigFile

-----------------------------------------------------------------------------
(* Claims about the load of the manifest, staging and the frame of a failed run *)

\* C17: a run of the ingest tool that reaches the load of a manifest file whose
\* content is not valid JSON, or whose top-level value is not a list, ends with
\* a reported error about the manifest, not with an exception, and leaves the
\* manifest file as it was.
C17_MalformedManifestReported ==
    \A p \in Procs :
        (/\ ingest[p].pc \in {"Failed", "Crashed"}
         /\ ingest[p].err \in UpdateManifestErrors
         /\ hist[p].man0.kind \in {"garbage", "truncated", "dict"})
        => /\ ingest[p].pc = "Failed"
           /\ ingest[p].err = "ManifestInvalidJSON"
           /\ manifestFile = hist[p].man0

\* C18: when the manifest was persisted with the new record and staging then
\* fails, the run ends with a reported error, the manifest file still holds the
\* new record and the asset file still exists.
C18_StagingFailureKeeps ==
    \A p \in Procs :
        (ingest[p].err = "GitError")
        => /\ ingest[p].pc = "Failed"
           /\ manifestFile.kind = "list"
           /\ \E i \in 1..Len(manifestFile.val) : manifestFile.val[i] = ingest[p].new_entry
           /\ gifs[ingest[p].local_filename].kind = "fetched"

C18_Witness ==
    \E p \in Procs :
        /\ ingest[p].pc = "Failed"
        /\ ingest[p].err = "GitError"
        /\ Len(Records(hist[p].man0)) > 0

\* C20: a run that ends in failure before Committed leaves the working
\* directory as it was, and leaves every asset other than its own as it was.
C20_FailureTouchesOwnAssetOnly ==
    \A p \in Procs :
        FailedBeforeCommit(p)
        => /\ cwd = hist[p].cwd0
           /\ \A n \in FileNames \ {ingest[p].local_filename} : gifs[n] = hist[p].gifs0[n]

C19_NoLostUpdate ==
    (/\ \A p \in Procs : Committed(p)
     /\ ingest[1].local_filename # ingest[2].local_filename)
    => /\ manifestFile.kind = "list"
       /\ \A p \in Procs :
              \E i \in 1..Len(manifestFile.val) : manifestFile.val[i] = ingest[p].new_entry
       /\ \A j \in 1..Len(Records(init0)) :
              \E i \in 1..Len(manifestFile.val) : manifestFile.val[i] = Records(init0)[j]

=============================================================================
